---------------------------- MODULE Spec2Model ----------------------------
(***************************************************************************)
(* A state-machine model of banzai's source detection and photometric      *)
(* calibration stages (src/banzai/photometry.py), of its preview           *)
(* bookkeeping (src/banzai/preview.py) and of the loop that runs the       *)
(* stages (src/banzai/utils/stage_utils.py).                               *)
(*                                                                         *)
(*   Spec         SourceDetector.do_stage on one image, statement by       *)
(*                statement, with every failure the calls it makes can     *)
(*                produce.                                                 *)
(*   SpecPC       PhotometricCalibrator.do_stage on one image.             *)
(*   SpecThreads  two SourceDetector.do_stage runs interleaved in one      *)
(*                process, sharing sep's process-wide extraction limit.    *)
(*   SpecTheta    SourceDetector.do_stage on images whose objects lie at   *)
(*                each position angle sep can return.                      *)
(*   SpecStages   SourceDetector.do_stage, then                            *)
(*                PhotometricCalibrator.do_stage on the image it returned. *)
(*   SpecPreview  need_to_make_preview and the two reports of its caller,  *)
(*                for one file that may change on disk.                    *)
(*   SpecRun      one call of run_pipeline_stages.                         *)
(*                                                                         *)
(* sep, numpy, astropy and skimage are libraries: what they return is      *)
(* drawn from small sets of the values their documentation allows.         *)
(***************************************************************************)
EXTENDS Integers, Sequences, FiniteSets, TLC

VARIABLES
    image,        \* the frame: shape, filter, data, meta, the 'CAT' table
    pc,           \* position of the running do_stage
    data,         \* SourceDetector local: the private copy of image.data
    sources,      \* SourceDetector local: the table of detections
    catalog,      \* SourceDetector local: the selected, sorted table
    diameter,     \* SourceDetector local: loop variable of the aperture loop
    pixstack,     \* sep's process-wide extraction buffer limit
    extract_limit,\* the limit in effect when this image's sep.extract ran
    log,          \* levels of the messages the stage has logged, in order
    raised,       \* an exception left do_stage
    calls,        \* collaborators the calibrator has called
    failed,       \* the statement of do_stage that raised, or "none"
    matched_catalog, \* PhotometricCalibrator local
    th,           \* SpecThreads: per thread, its position, shape and limit seen
    th_pixstack,  \* SpecThreads: sep's process-wide limit shared by the threads
    attempts,     \* sep.Background calls this run of SourceDetector has made
    stage,        \* SpecStages: the stage whose do_stage is running
    preview,      \* SpecPreview: the preview bookkeeping of one file
    run           \* SpecRun: one call of run_pipeline_stages

vars == <<image, pc, data, sources, catalog, diameter, pixstack, extract_limit,
          log, raised, calls, failed, matched_catalog, th, th_pixstack,
          attempts, stage, preview, run>>

sdvars == <<image, pc, data, sources, catalog, diameter, pixstack, extract_limit,
            log, raised, failed>>
pcvars == <<calls, matched_catalog>>
thvars == <<th, th_pixstack>>
pvvars == <<stage, preview, run>>
auxvars == <<attempts, pvvars>>

---------------------------------------------------------------------------
(* Bounds of the model and constants of the program *)

\* most detections sep.extract returns for one image
MaxSources == 2

\* np.nan, as a value no measurement takes
NaN == -999

\* the 0.5 pixel cut on fluxrad50, in tenths of a pixel
MinFluxRad50 == 5

\* the flag cut after extraction
FlagCut == 8

\* np.pi: angles in radians are counted in quarters of pi
Pi == 4

\* the default of need_to_make_preview's max_tries
max_tries == 5

\* the contents the previewed file takes on disk, one after the other
MaxVersions == 2

\* most images run_pipeline_stages is given in one list
MaxImages == 2

---------------------------------------------------------------------------
(* Values *)

isnan(v) == v = NaN

\* a > b as IEEE floats compare: false when either side is NaN
Gt(a, b) == ~isnan(a) /\ ~isnan(b) /\ a > b

RECURSIVE BitOr(_, _)
\* a | b on non-negative integers
BitOr(a, b) ==
    IF a = 0 THEN b
    ELSE IF b = 0 THEN a
    ELSE (IF (a % 2 = 1) \/ (b % 2 = 1) THEN 1 ELSE 0) + 2 * BitOr(a \div 2, b \div 2)

\* a header card's value: a number or a string
Num(n) == <<"num", n>>
Str(s) == <<"str", s>>

\* float(value): a number is itself, 'NaN' parses to nan, any other string
\* raises ValueError
FloatRaises(v) == v[1] = "str" /\ v[2] \notin {"NaN", "nan", "inf", "-inf"}
float(v) == IF v[1] = "num" THEN v[2] ELSE NaN

\* an empty header
NoMeta == [k \in {} |-> Num(0)]

\* image.meta[key] = value
SetMeta(meta, key, value) ==
    [k \in DOMAIN meta \cup {key} |-> IF k = key THEN value ELSE meta[k]]

Filters == {"gp", "rp", "ip", "zs", "w"}
Shapes == {<<2, 2>>, <<2, 3>>}
DTypes == {"native", "swapped", "unsupported"}

\* sep's object flags (OBJ_MERGED = 1, OBJ_SINGU = 8) and aperture flags
\* (APER_TRUNC = 16)
ExtractFlags == {0, 1, 8}
ApertureFlags == {0, 16}
FluxValues == {0, 5}
FluxRadValues == {3, 12}

ExtractionColumns ==
    {"thresh", "npix", "tnpix", "xmin", "xmax", "ymin", "ymax", "x", "y",
     "x2", "y2", "xy", "errx2", "erry2", "errxy", "a", "b", "theta",
     "cxx", "cyy", "cxy", "cflux", "flux", "cpeak", "peak",
     "xcpeak", "ycpeak", "xpeak", "ypeak", "flag"}

CatalogColumns ==
    {"x", "y", "xwin", "ywin", "xpeak", "ypeak",
     "flux", "fluxerr", "peak", "fluxaper1", "fluxerr1",
     "fluxaper2", "fluxerr2", "fluxaper3", "fluxerr3",
     "fluxaper4", "fluxerr4", "fluxaper5", "fluxerr5",
     "fluxaper6", "fluxerr6", "background", "fwhm", "fwtm",
     "a", "b", "theta", "kronrad", "ellipticity",
     "fluxrad25", "fluxrad50", "fluxrad75",
     "x2", "y2", "xy", "flag"}

\* one detection: the columns whose values the stages branch on, and, per
\* width column, what measure.find_contours did for the source: "untraced"
\* while it was not called, "none" for an empty list, "found" otherwise
Row(flag, x) ==
    [flag |-> flag, x |-> x, flux |-> 5, fluxrad50 |-> NaN,
     fwhm |-> NaN, fwtm |-> NaN, xwin |-> NaN, ellipticity |-> NaN, theta |-> 0,
     contours |-> [keyword \in {"fwhm", "fwtm"} |-> "untraced"]]

\* what sep.extract can return for one detection of a frame whose objects
\* lie at the position angles thetas (radians)
ExtractedRows(thetas) ==
    {[Row(f, x) EXCEPT !.theta = t] : f \in ExtractFlags, x \in {NaN, 1}, t \in thetas}

\* the position angles sep can return: -pi/2 .. pi/2, and past either end by
\* rounding
Thetas == (0 - Pi) .. Pi

\* sources['theta'][sources['theta'] > (np.pi / 2.0)] -= np.pi, then
\* sources['theta'][sources['theta'] < (-np.pi / 2.0)] += np.pi
FixTheta(theta) ==
    LET lowered == IF 2 * theta > Pi THEN theta - Pi ELSE theta
    IN IF 2 * lowered < 0 - Pi THEN lowered + Pi ELSE lowered

\* np.degrees(theta)
degrees(theta) == (theta * 180) \div Pi

\* an astropy Table: its column names and its rows
NoTable == [cols |-> {}, rows |-> <<>>]

\* DataTable(catalog, name='CAT'); image['CAT'] is None while none is attached
DataTable(table, name) == [name |-> name, data |-> table]
None == [name |-> "None", data |-> NoTable]

\* a + b on floats: NaN propagates
Add(a, b) == IF isnan(a) \/ isnan(b) THEN NaN ELSE a + b

\* the sequence s reversed
Reverse(s) == [i \in DOMAIN s |-> s[Len(s) + 1 - i]]

RECURSIVE InsertByFlux(_, _)
\* row placed after the rows of the flux-sorted sequence s that are <= it
InsertByFlux(s, row) ==
    IF s = <<>> THEN <<row>>
    ELSE IF Head(s).flux <= row.flux THEN <<Head(s)>> \o InsertByFlux(Tail(s), row)
    ELSE <<row>> \o s

RECURSIVE SortByFlux(_)
\* Table.sort('flux'): ascending, stable
SortByFlux(s) ==
    IF s = <<>> THEN <<>>
    ELSE InsertByFlux(SortByFlux(SubSeq(s, 1, Len(s) - 1)), s[Len(s)])

---------------------------------------------------------------------------
(* SourceDetector.do_stage *)

NoData == [dtype |-> "none", subtracted |-> FALSE]

\* ndarray.byteswap(True).newbyteorder(): a byte-swapped array becomes native;
\* an array sep cannot take for another reason stays so
byteswap(dtype) ==
    CASE dtype = "swapped" -> "native"
      [] dtype = "native" -> "swapped"
      [] OTHER -> dtype

\* sep.Background(data, ...) raises ValueError unless the array is in native
\* byte order and of a supported dtype
BackgroundRaisesValueError(d) == d.dtype # "native"

\* `return image`: the locals of do_stage are gone
Return ==
    /\ pc' = "done"
    /\ data' = NoData
    /\ sources' = NoTable
    /\ catalog' = NoTable
    /\ diameter' = 0

\* except Exception: logger.error(logs.format_exception(), image=image)
\* followed by return image
LogErrorAndReturn ==
    /\ log' = Append(log, "error")
    /\ failed' = pc
    /\ Return
    /\ UNCHANGED <<image, pixstack, extract_limit, raised>>

\* the statements of the try body other than the ones with a handler of
\* their own
TryBody ==
    {"start", "Background", "subfrom", "prune", "kron_radius", "sum_ellipse",
     "sum_circle", "flux_radius", "find_contours", "winpos", "background",
     "catalog", "L1MEAN", "L1MEDIAN", "L1SIGMA", "image_statistics",
     "logging_tags", "add_or_update"}

except_Exception_absent ==
    /\ pc \in TryBody
    /\ raised' = TRUE
    /\ failed' = pc
    /\ Return
    /\ UNCHANGED <<image, pixstack, extract_limit, log>>
    /\ UNCHANGED <<pcvars, thvars, auxvars>>

\* any statement of the try body raises something other than what the inner
\* handlers take: the outer handler logs it and the image is returned
except_Exception ==
    /\ pc \in TryBody
    /\ LogErrorAndReturn
    /\ UNCHANGED <<pcvars, thvars, auxvars>>

\* an ndarray the stage holds: base says whose buffer it is, "copy" for an
\* array of its own and "image" for image.data itself
Array(d, base) ==
    [dtype |-> d.dtype, subtracted |-> d.subtracted, thetas |-> d.thetas, base |-> base]

\* the image after an in-place operation has left the local array as d: the
\* operation reaches image.data only when d is that very buffer
InPlace(d) ==
    IF d.base = "image"
    THEN [image EXCEPT !.data = [dtype |-> d.dtype, subtracted |-> d.subtracted,
                                 thetas |-> d.thetas]]
    ELSE image

\* ny, nx = image.shape; sep.set_extract_pixstack; data = image.data.copy(),
\* error = image.uncertainty, mask = image.mask > 0
Start(base) ==
    /\ pc = "start"
    /\ pixstack' = image.shape[2] * image.shape[1] - 1
    /\ data' = Array(image.data, base)
    /\ pc' = "Background"
    /\ UNCHANGED <<image, sources, catalog, diameter, extract_limit, log, raised, failed>>
    /\ UNCHANGED <<pcvars, thvars, auxvars>>

set_extract_pixstack_no_copy == Start("image")

set_extract_pixstack == Start("copy")

Background_swapping_first ==
    /\ pc = "Background"
    /\ attempts' = attempts + 1
    /\ data' = [data EXCEPT !.dtype = byteswap(@)]
    /\ pc' = IF BackgroundRaisesValueError(data) THEN "BackgroundRetry" ELSE "subfrom"
    /\ image' = InPlace(data')
    /\ UNCHANGED <<sources, catalog, diameter, pixstack, extract_limit,
                   log, raised, failed>>
    /\ UNCHANGED <<pcvars, thvars, pvvars>>

\* the first sep.Background; on ValueError the copy is byte-swapped in place
Background ==
    /\ pc = "Background"
    /\ attempts' = attempts + 1
    /\ IF BackgroundRaisesValueError(data)
       THEN /\ data' = [data EXCEPT !.dtype = byteswap(@)]
            /\ pc' = "BackgroundRetry"
       ELSE /\ data' = data
            /\ pc' = "subfrom"
    /\ image' = InPlace(data')
    /\ UNCHANGED <<sources, catalog, diameter, pixstack, extract_limit,
                   log, raised, failed>>
    /\ UNCHANGED <<pcvars, thvars, pvvars>>

\* the second sep.Background, inside the except ValueError clause: what it
\* raises goes to the outer handler
BackgroundRetry ==
    /\ pc = "BackgroundRetry"
    /\ attempts' = attempts + 1
    /\ IF BackgroundRaisesValueError(data)
       THEN LogErrorAndReturn
       ELSE /\ pc' = "subfrom"
            /\ UNCHANGED <<image, data, sources, catalog, diameter, pixstack,
                           extract_limit, log, raised, failed>>
    /\ UNCHANGED <<pcvars, thvars, pvvars>>

\* bkg.subfrom(data)
subfrom ==
    /\ pc = "subfrom"
    /\ data' = [data EXCEPT !.subtracted = TRUE]
    /\ image' = InPlace(data')
    /\ pc' = "extract"
    /\ UNCHANGED <<sources, catalog, diameter, pixstack, extract_limit,
                   log, raised, failed>>
    /\ UNCHANGED <<pcvars, thvars, auxvars>>

\* sep.extract under the limit now in effect; its own handler logs and returns
extract ==
    /\ pc = "extract"
    /\ extract_limit' = pixstack
    /\ \/ /\ log' = Append(log, "error")
          /\ failed' = pc
          /\ Return
       \/ /\ \E n \in 0..MaxSources : \E rows \in [1..n -> ExtractedRows(data.thetas)] :
                sources' = [cols |-> ExtractionColumns, rows |-> rows]
          /\ pc' = "prune"
          /\ UNCHANGED <<data, catalog, diameter, log, failed>>
    /\ UNCHANGED <<image, pixstack, raised>>
    /\ UNCHANGED <<pcvars, thvars, auxvars>>

\* array_utils.prune_nans_from_table: the rows with no NaN in any column
nan_in_row(row, cols) == \E c \in cols \cap DOMAIN row : isnan(row[c])
prune_nans_from_table(table) ==
    [table EXCEPT !.rows = SelectSeq(@, LAMBDA row : ~nan_in_row(row, table.cols))]

\* sources[sources['flag'] < 8]
FlagBelowCut(table) ==
    [table EXCEPT !.rows = SelectSeq(@, LAMBDA row : row.flag < FlagCut)]

\* Table(sources), the two cuts, the ellipticity column and the theta fix
prune ==
    /\ pc = "prune"
    /\ LET pruned == prune_nans_from_table(FlagBelowCut(sources))
       IN sources' = [cols |-> pruned.cols \cup {"ellipticity"},
                      rows |-> [i \in DOMAIN pruned.rows |->
                                   [pruned.rows[i] EXCEPT !.ellipticity = 0,
                                                          !.theta = FixTheta(@)]]]
    /\ pc' = "kron_radius"
    /\ UNCHANGED <<image, data, catalog, diameter, pixstack, extract_limit,
                   log, raised, failed>>
    /\ UNCHANGED <<pcvars, thvars, auxvars>>

\* sources['flag'] |= flag, row by row
OrFlags(rows, flag) == [i \in DOMAIN rows |-> [rows[i] EXCEPT !.flag = BitOr(@, flag[i])]]

\* sep.kron_radius and the two assignments after it
kron_radius ==
    /\ pc = "kron_radius"
    /\ \E krflag \in [DOMAIN sources.rows -> ApertureFlags] :
          sources' = [cols |-> sources.cols \cup {"kronrad"},
                      rows |-> OrFlags(sources.rows, krflag)]
    /\ pc' = "sum_ellipse"
    /\ UNCHANGED <<image, data, catalog, diameter, pixstack, extract_limit,
                   log, raised, failed>>
    /\ UNCHANGED <<pcvars, thvars, auxvars>>

\* sep.sum_ellipse at 2.5 Kron radii: flux, fluxerr and the flag
sum_ellipse ==
    /\ pc = "sum_ellipse"
    /\ \E flux \in [DOMAIN sources.rows -> FluxValues] :
       \E flag \in [DOMAIN sources.rows -> ApertureFlags] :
          sources' = [cols |-> sources.cols \cup {"flux", "fluxerr"},
                      rows |-> OrFlags([i \in DOMAIN sources.rows |->
                                          [sources.rows[i] EXCEPT !.flux = flux[i]]],
                                       flag)]
    /\ pc' = "sum_circle"
    /\ diameter' = 1
    /\ UNCHANGED <<image, data, catalog, pixstack, extract_limit, log, raised, failed>>
    /\ UNCHANGED <<pcvars, thvars, auxvars>>

fluxaper == <<"fluxaper1", "fluxaper2", "fluxaper3", "fluxaper4", "fluxaper5", "fluxaper6">>
fluxerr == <<"fluxerr1", "fluxerr2", "fluxerr3", "fluxerr4", "fluxerr5", "fluxerr6">>

\* one turn of the loop over the diameters [1, 2, 3, 4, 5, 6]
sum_circle ==
    /\ pc = "sum_circle"
    /\ \E flag \in [DOMAIN sources.rows -> ApertureFlags] :
          sources' = [cols |-> sources.cols \cup {fluxaper[diameter], fluxerr[diameter]},
                      rows |-> OrFlags(sources.rows, flag)]
    /\ IF diameter < Len(fluxaper)
       THEN diameter' = diameter + 1 /\ pc' = pc
       ELSE diameter' = 0 /\ pc' = "flux_radius"
    /\ UNCHANGED <<image, data, catalog, pixstack, extract_limit, log, raised, failed>>
    /\ UNCHANGED <<pcvars, thvars, auxvars>>

\* sep.flux_radius, the three radius columns, and the cut on fluxrad50
flux_radius ==
    /\ pc = "flux_radius"
    /\ \E flux_radii \in [DOMAIN sources.rows -> FluxRadValues] :
       \E flag \in [DOMAIN sources.rows -> ApertureFlags] :
          sources' = [cols |-> sources.cols \cup {"fluxrad25", "fluxrad50", "fluxrad75"},
                      rows |-> SelectSeq(
                          OrFlags([i \in DOMAIN sources.rows |->
                                     [sources.rows[i] EXCEPT !.fluxrad50 = flux_radii[i]]],
                                  flag),
                          LAMBDA row : Gt(row.fluxrad50, MinFluxRad50))]
    /\ pc' = "find_contours"
    /\ UNCHANGED <<image, data, catalog, diameter, pixstack, extract_limit,
                   log, raised, failed>>
    /\ UNCHANGED <<pcvars, thvars, auxvars>>

\* the flags of the sources measure.find_contours is called for
TracedFlags == {0}

\* fwhm and fwtm start as NaN; a source with flag 0 gets twice the largest
\* contour radius at the level where measure.find_contours found a contour
FindContours(traced) ==
    /\ pc = "find_contours"
    /\ \E contours \in [DOMAIN sources.rows -> [{"fwhm", "fwtm"} -> BOOLEAN]] :
          sources' = [cols |-> sources.cols \cup {"fwhm", "fwtm"},
                      rows |-> [i \in DOMAIN sources.rows |->
                          LET source == sources.rows[i]
                              Width(keyword, radius) ==
                                  IF source.flag \in traced /\ contours[i][keyword]
                                  THEN 2 * radius ELSE NaN
                              Traced(keyword) ==
                                  IF source.flag \notin traced THEN "untraced"
                                  ELSE IF contours[i][keyword] THEN "found" ELSE "none"
                          IN [source EXCEPT !.fwhm = Width("fwhm", 2),
                                            !.fwtm = Width("fwtm", 4),
                                            !.contours = [keyword \in {"fwhm", "fwtm"} |->
                                                             Traced(keyword)]]]]
    /\ pc' = "winpos"
    /\ UNCHANGED <<image, data, catalog, diameter, pixstack, extract_limit,
                   log, raised, failed>>
    /\ UNCHANGED <<pcvars, thvars, auxvars>>

find_contours_any_flag == FindContours(0 .. (FlagCut - 1))

find_contours == FindContours(TracedFlags)

\* sep.winpos seeded with sig = 2.0 / 2.35 * fwhm, and its flag.  The
\* position it returns is taken to be a number for every source, also for
\* one whose fwhm, and so whose sig, is NaN.
winpos ==
    /\ pc = "winpos"
    /\ \E flag \in [DOMAIN sources.rows -> ApertureFlags] :
          sources' = [cols |-> sources.cols \cup {"xwin", "ywin"},
                      rows |-> OrFlags([i \in DOMAIN sources.rows |->
                                          [sources.rows[i] EXCEPT !.xwin = sources.rows[i].x]],
                                       flag)]
    /\ pc' = "background"
    /\ UNCHANGED <<image, data, catalog, diameter, pixstack, extract_limit,
                   log, raised, failed>>
    /\ UNCHANGED <<pcvars, thvars, auxvars>>

\* the background column, the shift to the one-based FITS convention and
\* theta in degrees
background ==
    /\ pc = "background"
    /\ sources' = [cols |-> sources.cols \cup {"background"},
                   rows |-> [i \in DOMAIN sources.rows |->
                                [sources.rows[i] EXCEPT !.x = Add(@, 1),
                                                        !.xwin = Add(@, 1),
                                                        !.theta = degrees(@)]]]
    /\ pc' = "catalog"
    /\ UNCHANGED <<image, data, catalog, diameter, pixstack, extract_limit,
                   log, raised, failed>>
    /\ UNCHANGED <<pcvars, thvars, auxvars>>

\* catalog = sources[the 36 columns]; units and descriptions;
\* catalog.sort('flux'); catalog.reverse(). Selecting a column the table
\* lacks raises KeyError.
select_catalog ==
    /\ pc = "catalog"
    /\ IF CatalogColumns \subseteq sources.cols
       THEN /\ catalog' = [cols |-> CatalogColumns,
                           rows |-> Reverse(SortByFlux(sources.rows))]
            /\ pc' = "L1MEAN"
            /\ UNCHANGED <<image, data, sources, diameter, pixstack, extract_limit,
                           log, raised, failed>>
       ELSE LogErrorAndReturn
    /\ UNCHANGED <<pcvars, thvars, auxvars>>

L1MEAN_after_attach ==
    /\ pc = "L1MEAN"
    /\ image' = [image EXCEPT !.CAT = DataTable(catalog, "CAT")]
    /\ pc' = "L1MEDIAN"
    /\ UNCHANGED <<data, sources, catalog, diameter, pixstack, extract_limit,
                   log, raised, failed>>
    /\ UNCHANGED <<pcvars, thvars, auxvars>>

\* the three background statistics, each written as soon as it is computed
L1MEAN ==
    /\ pc = "L1MEAN"
    /\ image' = [image EXCEPT !.meta = SetMeta(@, "L1MEAN", Num(10))]
    /\ pc' = "L1MEDIAN"
    /\ UNCHANGED <<data, sources, catalog, diameter, pixstack, extract_limit,
                   log, raised, failed>>
    /\ UNCHANGED <<pcvars, thvars, auxvars>>

L1MEDIAN ==
    /\ pc = "L1MEDIAN"
    /\ image' = [image EXCEPT !.meta = SetMeta(@, "L1MEDIAN", Num(10))]
    /\ pc' = "L1SIGMA"
    /\ UNCHANGED <<data, sources, catalog, diameter, pixstack, extract_limit,
                   log, raised, failed>>
    /\ UNCHANGED <<pcvars, thvars, auxvars>>

L1SIGMA ==
    /\ pc = "L1SIGMA"
    /\ image' = [image EXCEPT !.meta = SetMeta(@, "L1SIGMA", Num(1))]
    /\ pc' = "image_statistics"
    /\ UNCHANGED <<data, sources, catalog, diameter, pixstack, extract_limit,
                   log, raised, failed>>
    /\ UNCHANGED <<pcvars, thvars, auxvars>>

\* catalog['flag'] == 0 and no NaN in fwhm, ellipticity, theta
good_objects(rows) ==
    {i \in DOMAIN rows :
        /\ rows[i].flag = 0
        /\ \A quantity \in {"fwhm", "ellipticity", "theta"} : ~isnan(rows[i][quantity])}

\* np.nanmedian over the rows in keep: NaN when every value is NaN, else a
\* value with half of the others on either side
nanmedian(rows, keep, column) ==
    LET at == {i \in keep : ~isnan(rows[i][column])}
        below(m) == Cardinality({i \in at : rows[i][column] <= m})
        above(m) == Cardinality({i \in at : rows[i][column] >= m})
    IN IF at = {} THEN NaN
       ELSE CHOOSE m \in {rows[i][column] : i \in at} :
               2 * below(m) >= Cardinality(at) /\ 2 * above(m) >= Cardinality(at)

\* image.meta[key] = value[key] for every key of value
SetAll(meta, value) ==
    [k \in DOMAIN meta \cup DOMAIN value |->
        IF k \in DOMAIN value THEN value[k] ELSE meta[k]]

ImageStatistics_omitted(meta, rows) ==
    LET good == good_objects(rows)
    IN IF Cardinality(good) = 0
       THEN meta
       ELSE SetAll(meta, [k \in {"L1FWHM", "L1FWTM", "L1ELLIP", "L1ELLIPA"} |->
                             Num(nanmedian(rows, good, "fwhm"))])

\* the four frame statistics: the string 'NaN' when no object is good.  Every
\* measured column of the model takes one value, on which the median, the
\* median of the ratio and the sigma-clipped mean agree.
ImageStatistics(meta, rows) ==
    LET good == good_objects(rows)
        measured(k) ==
            CASE k = "L1FWHM" -> Num(nanmedian(rows, good, "fwhm"))
              [] k = "L1FWTM" -> Num(IF isnan(nanmedian(rows, good, "fwtm")) THEN NaN
                                     ELSE nanmedian(rows, good, "fwtm")
                                          \div nanmedian(rows, good, "fwhm"))
              [] k = "L1ELLIP" -> Num(nanmedian(rows, good, "ellipticity"))
              [] OTHER -> Num(nanmedian(rows, good, "theta"))
    IN IF Cardinality(good) = 0
       THEN SetAll(meta, [k \in {"L1FWHM", "L1FWTM", "L1ELLIP", "L1ELLIPA"} |->
                             Str("NaN")])
       ELSE SetAll(meta, [k \in {"L1FWHM", "L1FWTM", "L1ELLIP", "L1ELLIPA"} |->
                             measured(k)])

image_statistics ==
    /\ pc = "image_statistics"
    /\ image' = [image EXCEPT !.meta = ImageStatistics(@, catalog.rows)]
    /\ pc' = "logging_tags"
    /\ UNCHANGED <<data, sources, catalog, diameter, pixstack, extract_limit,
                   log, raised, failed>>
    /\ UNCHANGED <<pcvars, thvars, auxvars>>

LoggingKeys == {"L1MEAN", "L1MEDIAN", "L1SIGMA", "L1FWHM", "L1ELLIP", "L1ELLIPA"}

\* float(image.meta[key]) for the six keys: KeyError for a missing key,
\* ValueError for a value float() cannot take
LoggingTagsRaise(meta) ==
    \E key \in LoggingKeys : key \notin DOMAIN meta \/ FloatRaises(meta[key])

\* the dictionary of logging tags, then logger.info('Extracted sources')
logging_tags ==
    /\ pc = "logging_tags"
    /\ IF LoggingTagsRaise(image.meta)
       THEN LogErrorAndReturn
       ELSE /\ log' = Append(log, "info")
            /\ pc' = "add_or_update"
            /\ UNCHANGED <<image, data, sources, catalog, diameter, pixstack,
                           extract_limit, raised, failed>>
    /\ UNCHANGED <<pcvars, thvars, auxvars>>

\* image.add_or_update(DataTable(catalog, name='CAT')); return image
add_or_update ==
    /\ pc = "add_or_update"
    /\ image' = [image EXCEPT !.CAT = DataTable(catalog, "CAT")]
    /\ Return
    /\ UNCHANGED <<pixstack, extract_limit, log, raised, failed>>
    /\ UNCHANGED <<pcvars, thvars, auxvars>>

---------------------------------------------------------------------------
(* PhotometricCalibrator.do_stage *)

\* the filters do_stage goes on with
SupportedFilters == {"gp", "rp", "ip", "zs"}

color_to_fit(filter) ==
    CASE filter = "gp" -> "g-r"
      [] filter = "rp" -> "r-i"
      [] filter = "ip" -> "r-i"
      [] OTHER -> "i-z"

\* the header keys the calibration writes
ZeropointKeys == {"L1ZP", "L1ZPERR", "L1COLORU", "L1COLOR", "L1COLERR"}

\* image.meta.get(key, default)
MetaGet(meta, key, default) == IF key \in DOMAIN meta THEN meta[key] ELSE default

\* what the reference catalog request can raise (requests' exceptions);
\* `except HTTPError` takes the first only
TransportErrors == {"HTTPError", "ConnectionError", "Timeout"}
IsHTTPError(e) == e = "HTTPError"

\* `return image` from the calibrator
ReturnImage ==
    /\ pc' = "done"
    /\ UNCHANGED <<data, sources, catalog, diameter, pixstack, extract_limit>>

\* an exception nothing in do_stage catches
Propagate(step) ==
    /\ raised' = TRUE
    /\ failed' = step
    /\ pc' = "done"
    /\ UNCHANGED <<data, sources, catalog, diameter, pixstack, extract_limit>>

\* the three early returns: unsupported filter (silent), no catalog, failed
\* astrometric solution (a warning each)
Preconditions(supported) ==
    /\ pc = "calibrate"
    /\ IF image.filter \notin supported
       THEN ReturnImage /\ log' = log
       ELSE IF image.CAT = None
       THEN ReturnImage /\ log' = Append(log, "warning")
       ELSE IF MetaGet(image.meta, "WCSERR", Num(1))[2] > 0
       THEN ReturnImage /\ log' = Append(log, "warning")
       ELSE /\ pc' = "get_reference_sources"
            /\ log' = log
            /\ UNCHANGED <<data, sources, catalog, diameter, pixstack, extract_limit>>
    /\ UNCHANGED <<image, raised, calls, failed, matched_catalog, thvars, auxvars>>

preconditions_any_filter == Preconditions(Filters)

preconditions == Preconditions(SupportedFilters)

\* the request for the reference catalog: a table, an HTTPError (logged,
\* the image returned) or another transport error (not caught)
get_reference_sources ==
    /\ pc = "get_reference_sources"
    /\ calls' = calls \cup {"get_reference_sources"}
    /\ \/ /\ pc' = "match_catalogs"
          /\ UNCHANGED <<log, raised, failed, data, sources, catalog, diameter,
                         pixstack, extract_limit>>
       \/ \E e \in TransportErrors :
             IF IsHTTPError(e)
             THEN /\ log' = Append(log, "error")
                  /\ failed' = "get_reference_sources"
                  /\ raised' = raised
                  /\ ReturnImage
             ELSE Propagate("get_reference_sources") /\ log' = log
    /\ UNCHANGED <<image, matched_catalog, thvars, auxvars>>

\* flag == 0 and flux > 0.0
good_sources(rows) == SelectSeq(rows, LAMBDA row : row.flag = 0 /\ Gt(row.flux, 0))

\* the sequences of rows match_catalogs can return: each detection matches at
\* most one reference source and unmatched detections are dropped
RECURSIVE SubSeqs(_)
SubSeqs(rows) ==
    IF rows = <<>> THEN {<<>>}
    ELSE LET rest == SubSeqs(Tail(rows))
         IN rest \cup {<<Head(rows)>> \o r : r \in rest}

\* the selection of good sources and match_catalogs (neither inside a try),
\* then the return on an empty match
Match(check_empty) ==
    /\ pc = "match_catalogs"
    /\ calls' = calls \cup {"match_catalogs"}
    /\ \/ /\ Propagate("match_catalogs")
          /\ UNCHANGED <<log, matched_catalog>>
       \/ \E matched \in SubSeqs(good_sources(image.CAT.data.rows)) :
             /\ matched_catalog' = matched
             /\ IF check_empty /\ Len(matched) = 0
                THEN /\ log' = Append(log, "error")
                     /\ ReturnImage
                ELSE /\ log' = log
                     /\ pc' = "fit_photometry"
                     /\ UNCHANGED <<data, sources, catalog, diameter, pixstack,
                                    extract_limit>>
             /\ UNCHANGED <<raised, failed>>
    /\ UNCHANGED <<image, thvars, auxvars>>

match_catalogs_unchecked == Match(FALSE)

match_catalogs == Match(TRUE)

\* fit_photometry inside try / bare except: any failure is logged and the
\* image returned
Fit(caught) ==
    /\ pc = "fit_photometry"
    /\ calls' = calls \cup {"fit_photometry"}
    /\ \/ /\ pc' = "to_magnitude"
          /\ UNCHANGED <<log, raised, failed, data, sources, catalog, diameter,
                         pixstack, extract_limit>>
       \/ IF caught
          THEN /\ log' = Append(log, "error")
               /\ failed' = "fit_photometry"
               /\ raised' = raised
               /\ ReturnImage
          ELSE Propagate("fit_photometry") /\ log' = log
    /\ UNCHANGED <<image, matched_catalog, thvars, auxvars>>

fit_photometry_uncaught == Fit(FALSE)

fit_photometry == Fit(TRUE)

\* the five header cards
WriteZeropoint(meta, filter) ==
    [k \in DOMAIN meta \cup ZeropointKeys |->
        IF k = "L1COLORU" THEN Str(color_to_fit(filter))
        ELSE IF k \in ZeropointKeys THEN Num(0)
        ELSE meta[k]]

\* the columns the calibrator assigns in image['CAT'].data
MagnitudeColumns == {"mag", "magerr"}

\* the header cards are written, then to_magnitude (not inside a try) fills
\* the columns
ToMagnitude(columns) ==
    /\ pc = "to_magnitude"
    /\ calls' = calls \cup {"to_magnitude"}
    /\ \/ /\ image' = [image EXCEPT !.meta = WriteZeropoint(@, image.filter)]
          /\ Propagate("to_magnitude")
       \/ /\ image' = [image EXCEPT
                          !.meta = WriteZeropoint(@, image.filter),
                          !.CAT.data.cols = @ \cup columns]
          /\ ReturnImage
          /\ UNCHANGED <<raised, failed>>
    /\ UNCHANGED <<log, matched_catalog, thvars, auxvars>>

to_magnitude_and_zeropoint == ToMagnitude(MagnitudeColumns \cup {"zeropoint"})

to_magnitude == ToMagnitude(MagnitudeColumns)

\* a catalog row as SourceDetector leaves it
CatalogRow(flag, flux) ==
    [Row(flag, 2) EXCEPT !.flux = flux, !.fluxrad50 = 12, !.fwhm = 4, !.fwtm = 8,
                         !.xwin = 2, !.ellipticity = 0,
                         !.contours = [keyword \in {"fwhm", "fwtm"} |-> "found"]]

\* the catalogs of at most MaxSources rows, sorted by decreasing flux
Catalogs ==
    LET rowset == {CatalogRow(flag, flux) : flag \in ApertureFlags, flux \in FluxValues}
    IN {rows \in UNION {[1..n -> rowset] : n \in 0..MaxSources} :
           \A i \in 1..(Len(rows) - 1) : rows[i].flux >= rows[i + 1].flux}

\* WCSERR as the astrometry stage leaves it: absent, 0 (solved) or 4 (failed)
Headers == {NoMeta, SetMeta(NoMeta, "WCSERR", Num(0)), SetMeta(NoMeta, "WCSERR", Num(4))}

---------------------------------------------------------------------------
(* Two SourceDetector.do_stage runs interleaved in one process.  Only the   *)
(* statements that touch state outside the run are kept apart: the call     *)
(* that sets sep's limit, and sep.extract, which works under the limit in   *)
(* effect when it is called.                                                *)

Threads == {1, 2}

\* int(nx * ny - 1) for a shape (ny, nx)
PixstackFor(shape) == shape[2] * shape[1] - 1

\* ny, nx = image.shape; sep.set_extract_pixstack(int(nx * ny - 1))
thread_set_extract_pixstack(t) ==
    /\ th[t].pc = "start"
    /\ th_pixstack' = PixstackFor(th[t].shape)
    /\ th' = [th EXCEPT ![t].pc = "Background"]
    /\ UNCHANGED <<sdvars, pcvars, auxvars>>

\* the copies, sep.Background and bkg.subfrom: all on the run's own arrays
thread_Background(t) ==
    /\ th[t].pc = "Background"
    /\ th' = [th EXCEPT ![t].pc = "extract"]
    /\ UNCHANGED <<th_pixstack, sdvars, pcvars, auxvars>>

\* sep.extract, under the process-wide limit as it is now
thread_extract(t) ==
    /\ th[t].pc = "extract"
    /\ th' = [th EXCEPT ![t].pc = "measure", ![t].extract_limit = th_pixstack]
    /\ UNCHANGED <<th_pixstack, sdvars, pcvars, auxvars>>

\* the rest of do_stage: the run's own table and its own image
thread_measure(t) ==
    /\ th[t].pc = "measure"
    /\ th' = [th EXCEPT ![t].pc = "done"]
    /\ UNCHANGED <<th_pixstack, sdvars, pcvars, auxvars>>

---------------------------------------------------------------------------
(* The preview bookkeeping of src/banzai/preview.py, for one file.  The    *)
(* caller asks need_to_make_preview and, when the answer is True, makes    *)
(* the preview and reports the outcome: increment_preview_try_number after *)
(* a failure, set_preview_file_as_processed after a success.               *)

\* what image_passes_criteria does: True, False, or TelescopeMissingException
CriteriaOutcomes == {"pass", "fail", "TelescopeMissingException"}

\* the row dbs.get_preview_image adds for a file it does not know: no
\* checksum of a file equals its checksum
NewPreviewImage == [checksum |-> 0, tries |-> 0, success |-> FALSE]

\* need_to_make_preview(path, criteria, max_tries=limit); reset says whether
\* tries goes back to zero when the checksum differs.  preview.trues counts
\* the True answers given for the stored checksum, the one that recorded it
\* included.
NeedToMakePreview(limit, reset) ==
    /\ preview.pc = "idle"
    /\ \E outcome \in CriteriaOutcomes :
          IF outcome # "pass"
          THEN preview' = [preview EXCEPT !.pc = "returned", !.criteria = outcome,
                                          !.need_to_process = FALSE]
          ELSE LET preview_image == preview.db
                   checksum == preview.md5
               IN IF preview_image.checksum # checksum
                  THEN preview' = [preview EXCEPT
                           !.pc = "returned", !.criteria = outcome,
                           !.need_to_process = TRUE,
                           !.db = [checksum |-> checksum,
                                   tries |-> IF reset THEN 0 ELSE preview_image.tries,
                                   success |-> FALSE],
                           !.trues = 1]
                  ELSE IF preview_image.tries < limit /\ ~preview_image.success
                  THEN preview' = [preview EXCEPT
                           !.pc = "returned", !.criteria = outcome,
                           !.need_to_process = TRUE,
                           !.db = preview_image,
                           !.trues = @ + 1]
                  ELSE preview' = [preview EXCEPT
                           !.pc = "returned", !.criteria = outcome,
                           !.need_to_process = FALSE]
    /\ UNCHANGED <<sdvars, pcvars, thvars, attempts, stage, run>>

need_to_make_preview_one_more == NeedToMakePreview(max_tries + 1, TRUE)

need_to_make_preview_keeping_tries == NeedToMakePreview(max_tries, FALSE)

need_to_make_preview == NeedToMakePreview(max_tries, TRUE)

\* the caller after a preview that failed
increment_preview_try_number ==
    /\ preview.pc = "returned"
    /\ preview.need_to_process
    /\ preview' = [preview EXCEPT !.pc = "idle", !.db.tries = @ + 1]
    /\ UNCHANGED <<sdvars, pcvars, thvars, attempts, stage, run>>

\* the caller after a preview that was made
set_preview_file_as_processed ==
    /\ preview.pc = "returned"
    /\ preview.need_to_process
    /\ preview' = [preview EXCEPT !.pc = "idle", !.db.success = TRUE]
    /\ UNCHANGED <<sdvars, pcvars, thvars, attempts, stage, run>>

\* the caller after the answer False: nothing is made, nothing reported
no_preview_needed ==
    /\ preview.pc = "returned"
    /\ ~preview.need_to_process
    /\ preview' = [preview EXCEPT !.pc = "idle"]
    /\ UNCHANGED <<sdvars, pcvars, thvars, attempts, stage, run>>

\* the file is rewritten on disk: file_utils.get_md5 gives a new value
file_changes ==
    /\ preview.md5 < MaxVersions
    /\ preview' = [preview EXCEPT !.md5 = @ + 1]
    /\ UNCHANGED <<sdvars, pcvars, thvars, attempts, stage, run>>

---------------------------------------------------------------------------
(* run_pipeline_stages of src/banzai/utils/stage_utils.py.  An image is    *)
(* the sequence of the names of the stages that have worked on it.         *)

\* settings.ORDERED_STAGES
ORDERED_STAGES == <<"GainNormalizer", "CosmicRayDetector", "SourceDetector",
                    "PhotometricCalibrator">>

\* the values settings.LAST_STAGE[obstype] takes: None or a stage of the list
LAST_STAGES == {"None"} \cup {ORDERED_STAGES[i] : i \in DOMAIN ORDERED_STAGES}

\* the values settings.EXTRA_STAGES[obstype] takes
EXTRA_STAGES == {<<>>, <<"DepthTest">>, <<"DepthTest", "FocusTest">>}

\* the values runtime_context.CALIBRATION_STACKER_STAGES[obstype] takes
CALIBRATION_STACKER_STAGES == {<<"CalibrationStacker">>, <<"GainNormalizer", "CalibrationStacker">>}

\* ordered_stages.index(last_stage)
index(ordered_stages, last_stage) ==
    (CHOOSE i \in DOMAIN ordered_stages : ordered_stages[i] = last_stage) - 1

get_stages_for_individual_frame(ordered_stages, last_stage, extra_stages) ==
    LET last_index == IF last_stage = "None" THEN Len(ordered_stages)
                      ELSE index(ordered_stages, last_stage) + 1
        stages_todo == SubSeq(ordered_stages, 1, last_index)
    IN stages_todo \o extra_stages

\* the value of `images`: None, or the frames
NoneImages == [none |-> TRUE, frames |-> <<>>]
Frames(frames) == [none |-> FALSE, frames |-> frames]

\* stage.run(images) when it does not return None: the stage has worked on
\* every frame it was given
Ran(stage_name, images) ==
    Frames([i \in DOMAIN images.frames |-> Append(images.frames[i], stage_name)])

\* the values of image_paths: one path, or a list of n paths
ImagePaths == {[list |-> FALSE, n |-> 1]} \cup {[list |-> TRUE, n |-> n] : n \in 0..MaxImages}

\* frame_class.open and the resolution of the stages.  The obstype of the
\* frame (of the first frame of a list) is read before `images is None` is
\* tested: a frame that could not be opened raises AttributeError there, an
\* empty list IndexError.
open ==
    /\ run.pc = "open"
    /\ \/ /\ run.image_paths.list
          /\ IF run.image_paths.n = 0
             THEN run' = [run EXCEPT !.pc = "returned", !.raised = TRUE]
             ELSE \E stages \in CALIBRATION_STACKER_STAGES :
                run' = [run EXCEPT !.pc = IF stages = <<>> THEN "write" ELSE "loop",
                                   !.images = Frames([i \in 1..run.image_paths.n |-> <<>>]),
                                   !.stages_to_do = stages]
       \/ /\ ~run.image_paths.list
          /\ \/ \E last_stage \in LAST_STAGES, extra_stages \in EXTRA_STAGES :
                   LET stages == get_stages_for_individual_frame(ORDERED_STAGES, last_stage,
                                                                 extra_stages)
                   IN run' = [run EXCEPT !.pc = IF stages = <<>> THEN "write" ELSE "loop",
                                         !.images = Frames(<<<<>>>>),
                                         !.stages_to_do = stages]
             \/ run' = [run EXCEPT !.pc = "returned", !.raised = TRUE]
    /\ UNCHANGED <<sdvars, pcvars, thvars, attempts, stage, preview>>

\* one turn of the loop over stages_to_do: the stage is constructed and run;
\* on None the error is logged and the function returns.  stop says whether
\* the function returns there.
StageRun(stop) ==
    /\ run.pc = "loop"
    /\ LET stage_name == run.stages_to_do[Len(run.constructed) + 1]
           constructed == Append(run.constructed, stage_name)
           more == Len(constructed) < Len(run.stages_to_do)
       IN \/ run' = [run EXCEPT !.constructed = constructed,
                                !.received = Append(@, run.images),
                                !.images = Ran(stage_name, run.images),
                                !.pc = IF more THEN "loop" ELSE "write"]
          \/ run' = [run EXCEPT !.constructed = constructed,
                                !.received = Append(@, run.images),
                                !.images = NoneImages,
                                !.log = Append(@, "Reduction stopped"),
                                !.pc = IF stop THEN "returned"
                                       ELSE IF more THEN "loop" ELSE "write"]
    /\ UNCHANGED <<sdvars, pcvars, thvars, attempts, stage, preview>>

stage_run_going_on == StageRun(FALSE)

stage_run == StageRun(TRUE)

\* image.write(runtime_context) for every image, or for the one image
write ==
    /\ run.pc = "write"
    /\ run' = [run EXCEPT !.written = run.images.frames, !.pc = "returned"]
    /\ UNCHANGED <<sdvars, pcvars, thvars, attempts, stage, preview>>

---------------------------------------------------------------------------
(* The images a stage is given *)

NoThreads == [t \in {} |-> 0]

\* no file is being tracked for a preview; no run_pipeline_stages call is made
NoPreview == [pc |-> "none"]
NoRun == [pc |-> "none"]

\* a frame as SourceDetector receives it: no catalog yet
NewImage(shape, dtype, filter) ==
    [shape |-> shape, filter |-> filter,
     data |-> [dtype |-> dtype, subtracted |-> FALSE, thetas |-> {0}],
     uncertainty |-> "uncertainty", mask |-> "mask",
     meta |-> NoMeta, CAT |-> None]

Init ==
    /\ image \in {NewImage(shape, dtype, "rp") : shape \in Shapes, dtype \in DTypes}
    /\ pc = "start"
    /\ data = NoData
    /\ sources = NoTable
    /\ catalog = NoTable
    /\ diameter = 0
    /\ pixstack = 0
    /\ extract_limit = 0
    /\ log = <<>>
    /\ raised = FALSE
    /\ calls = {}
    /\ failed = "none"
    /\ matched_catalog = <<>>
    /\ th = NoThreads
    /\ th_pixstack = 0
    /\ attempts = 0
    /\ stage = "SourceDetector"
    /\ preview = NoPreview
    /\ run = NoRun

Next ==
    \/ set_extract_pixstack
    \/ Background
    \/ BackgroundRetry
    \/ subfrom
    \/ extract
    \/ prune
    \/ kron_radius
    \/ sum_ellipse
    \/ sum_circle
    \/ flux_radius
    \/ find_contours
    \/ winpos
    \/ background
    \/ select_catalog
    \/ L1MEAN
    \/ L1MEDIAN
    \/ L1SIGMA
    \/ image_statistics
    \/ logging_tags
    \/ add_or_update
    \/ except_Exception

Spec == Init /\ [][Next]_vars

\* a frame whose objects lie at one of the position angles sep can return
InitTheta ==
    /\ image \in {[NewImage(<<2, 2>>, dtype, "rp") EXCEPT !.data.thetas = {theta}] :
                    dtype \in DTypes, theta \in Thetas}
    /\ pc = "start"
    /\ data = NoData
    /\ sources = NoTable
    /\ catalog = NoTable
    /\ diameter = 0
    /\ pixstack = 0
    /\ extract_limit = 0
    /\ log = <<>>
    /\ raised = FALSE
    /\ calls = {}
    /\ failed = "none"
    /\ matched_catalog = <<>>
    /\ th = NoThreads
    /\ th_pixstack = 0
    /\ attempts = 0
    /\ stage = "SourceDetector"
    /\ preview = NoPreview
    /\ run = NoRun

SpecTheta == InitTheta /\ [][Next]_vars

\* WCSERR as the astrometry stage leaves it: absent, 0 (solved) or 4 (failed)
WithWCSERR(meta) == {meta, SetMeta(meta, "WCSERR", Num(0)), SetMeta(meta, "WCSERR", Num(4))}

\* the loop of run_pipeline_stages goes from one stage to the next: the
\* image SourceDetector returned reaches PhotometricCalibrator with the
\* header the astrometry stage between them leaves
next_stage ==
    /\ stage = "SourceDetector"
    /\ pc = "done"
    /\ ~raised
    /\ stage' = "PhotometricCalibrator"
    /\ pc' = "calibrate"
    /\ \E meta \in WithWCSERR(image.meta) : image' = [image EXCEPT !.meta = meta]
    /\ failed' = "none"
    /\ UNCHANGED <<data, sources, catalog, diameter, pixstack, extract_limit, log,
                   raised, calls, matched_catalog, thvars, attempts, preview, run>>

\* a frame as PhotometricCalibrator receives it
InitPC ==
    /\ image \in {[NewImage(<<2, 2>>, "native", filter) EXCEPT !.meta = meta, !.CAT = cat] :
                    filter \in Filters, meta \in Headers,
                    cat \in {None} \cup {DataTable([cols |-> CatalogColumns, rows |-> rows], "CAT") :
                                            rows \in Catalogs}}
    /\ pc = "calibrate"
    /\ data = NoData
    /\ sources = NoTable
    /\ catalog = NoTable
    /\ diameter = 0
    /\ pixstack = 0
    /\ extract_limit = 0
    /\ log = <<>>
    /\ raised = FALSE
    /\ calls = {}
    /\ failed = "none"
    /\ matched_catalog = <<>>
    /\ th = NoThreads
    /\ th_pixstack = 0
    /\ attempts = 0
    /\ stage = "PhotometricCalibrator"
    /\ preview = NoPreview
    /\ run = NoRun

NextPC ==
    \/ preconditions
    \/ get_reference_sources
    \/ match_catalogs
    \/ fit_photometry
    \/ to_magnitude

SpecPC == InitPC /\ [][NextPC]_vars

\* SourceDetector, then PhotometricCalibrator, on the same image
NextStages ==
    \/ Next
    \/ next_stage
    \/ NextPC

SpecStages == Init /\ [][NextStages]_vars

\* two threads, each given an image of its own
InitThreads ==
    /\ th \in [Threads -> {[pc |-> "start", shape |-> shape, extract_limit |-> 0] :
                             shape \in Shapes}]
    /\ th_pixstack = 0
    /\ image = NewImage(<<2, 2>>, "native", "rp")
    /\ pc = "done"
    /\ data = NoData
    /\ sources = NoTable
    /\ catalog = NoTable
    /\ diameter = 0
    /\ pixstack = 0
    /\ extract_limit = 0
    /\ log = <<>>
    /\ raised = FALSE
    /\ calls = {}
    /\ failed = "none"
    /\ matched_catalog = <<>>
    /\ attempts = 0
    /\ stage = "SourceDetector"
    /\ preview = NoPreview
    /\ run = NoRun

NextThreads ==
    \/ \E t \in Threads : thread_set_extract_pixstack(t)
    \/ \E t \in Threads : thread_Background(t)
    \/ \E t \in Threads : thread_extract(t)
    \/ \E t \in Threads : thread_measure(t)

SpecThreads == InitThreads /\ [][NextThreads]_vars

\* a file the database does not know yet
InitPreview ==
    /\ preview = [pc |-> "idle", db |-> NewPreviewImage, md5 |-> 1,
                  need_to_process |-> FALSE, criteria |-> "none", trues |-> 0]
    /\ run = NoRun
    /\ image = NewImage(<<2, 2>>, "native", "rp")
    /\ pc = "done"
    /\ data = NoData
    /\ sources = NoTable
    /\ catalog = NoTable
    /\ diameter = 0
    /\ pixstack = 0
    /\ extract_limit = 0
    /\ log = <<>>
    /\ raised = FALSE
    /\ calls = {}
    /\ failed = "none"
    /\ matched_catalog = <<>>
    /\ th = NoThreads
    /\ th_pixstack = 0
    /\ attempts = 0
    /\ stage = "none"

NextPreview ==
    \/ need_to_make_preview
    \/ increment_preview_try_number
    \/ set_preview_file_as_processed
    \/ no_preview_needed
    \/ file_changes

SpecPreview == InitPreview /\ [][NextPreview]_vars

\* run_pipeline_stages is called with one path or with a list of paths
InitRun ==
    /\ run \in {[pc |-> "open", image_paths |-> image_paths, stages_to_do |-> <<>>,
                 images |-> NoneImages, constructed |-> <<>>, received |-> <<>>,
                 written |-> <<>>, log |-> <<>>, raised |-> FALSE] :
                    image_paths \in ImagePaths}
    /\ preview = NoPreview
    /\ image = NewImage(<<2, 2>>, "native", "rp")
    /\ pc = "done"
    /\ data = NoData
    /\ sources = NoTable
    /\ catalog = NoTable
    /\ diameter = 0
    /\ pixstack = 0
    /\ extract_limit = 0
    /\ log = <<>>
    /\ raised = FALSE
    /\ calls = {}
    /\ failed = "none"
    /\ matched_catalog = <<>>
    /\ th = NoThreads
    /\ th_pixstack = 0
    /\ attempts = 0
    /\ stage = "none"

NextRun ==
    \/ open
    \/ stage_run
    \/ write

SpecRun == InitRun /\ [][NextRun]_vars

---------------------------------------------------------------------------
(* The claims *)

Levels(l) == {l[i] : i \in DOMAIN l}

IsSentinel(v) == v[1] = "str" /\ v[2] = "NaN"

Attached == image.CAT # None

FrameKeys == {"L1MEAN", "L1MEDIAN", "L1SIGMA", "L1FWHM", "L1FWTM", "L1ELLIP", "L1ELLIPA"}

SeeingKeys == {"L1FWHM", "L1FWTM", "L1ELLIP", "L1ELLIPA"}

\* C1: every row of the catalog SourceDetector attaches has flag < 8 and no
\* NaN in its position and flux columns.
C1_FinalCatalogPruned ==
    Attached =>
        \A i \in DOMAIN image.CAT.data.rows :
            LET row == image.CAT.data.rows[i]
            IN /\ row.flag < FlagCut
               /\ ~isnan(row.x) /\ ~isnan(row.xwin) /\ ~isnan(row.flux)

\* C2: when the match of the good sources against the reference catalog
\* returns no row, the calibrator has returned without calling
\* fit_photometry, has logged an error, has raised nothing and has written
\* none of the zeropoint keys.
C2_NoFitOnZeroMatches ==
    ("match_catalogs" \in calls /\ failed # "match_catalogs" /\ matched_catalog = <<>>) =>
        /\ pc = "done"
        /\ "fit_photometry" \notin calls
        /\ "error" \in Levels(log)
        /\ ~raised
        /\ ZeropointKeys \cap DOMAIN image.meta = {}

C2_Witness ==
    /\ pc = "done"
    /\ "match_catalogs" \in calls /\ failed # "match_catalogs" /\ matched_catalog = <<>>
    /\ Len(good_sources(image.CAT.data.rows)) > 0

\* the calibrator has left the image as it received it: no zeropoint key and
\* no mag or magerr column
Uncalibrated ==
    /\ ZeropointKeys \cap DOMAIN image.meta = {}
    /\ {"mag", "magerr"} \cap image.CAT.data.cols = {}

\* C3: when the request for the reference catalog raises a transport error,
\* whatever its kind, the calibrator returns the image unmodified, logs an
\* error and lets no exception out.
C3_TransportErrorCaught ==
    failed = "get_reference_sources" =>
        ~raised /\ "error" \in Levels(log) /\ Uncalibrated

\* C4: no statement of the calibrator that fails raises past the stage: the
\* failure is caught and logged.
C4_NothingRaisesPastStage ==
    failed # "none" => (~raised /\ "error" \in Levels(log))

\* C5: when a statement of SourceDetector.do_stage raises, nothing leaves
\* do_stage, an error is logged and the image is returned with no catalog
\* attached.
C5_FailureLeavesNoCatalog ==
    /\ ~raised
    /\ failed # "none" => (pc = "done" /\ "error" \in Levels(log) /\ ~Attached)

C5_Witness ==
    failed = "add_or_update" /\ pc = "done" /\ "L1FWHM" \in DOMAIN image.meta

\* C6: for a filter outside {gp, rp, ip, zs} the calibrator writes no
\* zeropoint key, logs no error and calls none of its collaborators,
\* whatever the catalog and WCSERR are.
C6_UnsupportedFilterSkipped ==
    image.filter \notin {"gp", "rp", "ip", "zs"} =>
        /\ calls = {}
        /\ ZeropointKeys \cap DOMAIN image.meta = {}
        /\ "error" \notin Levels(log)
        /\ ~raised

C6_Witness ==
    /\ pc = "done"
    /\ image.filter \notin {"gp", "rp", "ip", "zs"}
    /\ Attached
    /\ "WCSERR" \in DOMAIN image.meta /\ image.meta["WCSERR"] = Num(0)

\* the image fails one of the three preconditions of the calibrator
PreconditionFails ==
    \/ image.filter \notin {"gp", "rp", "ip", "zs"}
    \/ ~Attached
    \/ MetaGet(image.meta, "WCSERR", Num(1))[2] > 0

\* C7: each of the three precondition skips has logged a warning and no error
\* when the image is returned.
C7_SkipsWarn ==
    (pc = "done" /\ PreconditionFails) =>
        ("warning" \in Levels(log) /\ "error" \notin Levels(log))

\* C8: when fit_photometry raises, the calibrator catches it, logs an error
\* and returns the image with no zeropoint key and no mag or magerr column.
C8_FitFailureCaught ==
    failed = "fit_photometry" =>
        /\ pc = "done"
        /\ ~raised
        /\ "error" \in Levels(log)
        /\ Uncalibrated

C8_Witness == failed = "fit_photometry" /\ pc = "done"

\* C9: an attached catalog comes with all seven frame statistics in the
\* header; when no row of the catalog is good, the four seeing statistics
\* are the string 'NaN', the logging tags are built without an error, and
\* the catalog is attached with them.
C9_SentinelStatistics ==
    /\ Attached => FrameKeys \subseteq DOMAIN image.meta
    /\ (pc \in {"logging_tags", "add_or_update"} /\ good_objects(catalog.rows) = {}) =>
          /\ \A k \in SeeingKeys : k \in DOMAIN image.meta /\ IsSentinel(image.meta[k])
          /\ ~LoggingTagsRaise(image.meta)
    /\ (Attached /\ good_objects(image.CAT.data.rows) = {}) =>
          \A k \in SeeingKeys : IsSentinel(image.meta[k])

C9_Witness ==
    /\ Attached
    /\ image.CAT.data.rows = <<>>
    /\ \A k \in SeeingKeys : IsSentinel(image.meta[k])
    /\ failed = "none"

\* C10: with two runs of SourceDetector.do_stage interleaved, the limit in
\* effect when an image's sep.extract ran is the one set for that image.
C10_OwnLimitAtExtract ==
    \A t \in Threads :
        th[t].pc \in {"measure", "done"} => th[t].extract_limit = PixstackFor(th[t].shape)

\* C11: no step of SourceDetector.do_stage changes image.data,
\* image.uncertainty or image.mask (nor the shape or the filter): of the
\* image only meta and the 'CAT' table change, on every path.
C11_ArraysUntouched ==
    [][/\ image'.data = image.data
       /\ image'.uncertainty = image.uncertainty
       /\ image'.mask = image.mask
       /\ image'.shape = image.shape
       /\ image'.filter = image.filter]_vars

\* the byte-order retry succeeded, the background was subtracted from the
\* copy, the catalog is attached, and image.data is still as it came
C11_Witness ==
    /\ pc = "done" /\ Attached /\ attempts = 2
    /\ image.data.dtype = "swapped" /\ ~image.data.subtracted

\* C12: every theta of the attached catalog, normalised and in degrees, is
\* greater than -90 and at most 90.
C12_ThetaHalfOpen ==
    Attached =>
        \A i \in DOMAIN image.CAT.data.rows :
            image.CAT.data.rows[i].theta > -90 /\ image.CAT.data.rows[i].theta <= 90

\* C16: sep.Background is called at most twice; a second call happens only
\* after the first raised ValueError and works on the byte-swapped copy;
\* after a first call that succeeded the copy is not byte-swapped; a retry
\* that fails ends the stage with the image returned, no catalog attached
\* and nothing raised.
C16_BackgroundRetriedOnce ==
    /\ attempts <= 2
    /\ pc \notin {"start", "done"} => data.base = "copy"
    /\ attempts = 2 => BackgroundRaisesValueError(image.data)
    /\ (pc \notin {"start", "done"} /\ attempts = 2) =>
          data.dtype = byteswap(image.data.dtype)
    /\ pc = "BackgroundRetry" =>
          (attempts = 1 /\ data.dtype = byteswap(image.data.dtype))
    /\ (pc \notin {"start", "BackgroundRetry", "done"} /\ attempts = 1) =>
          (data.dtype = image.data.dtype /\ ~BackgroundRaisesValueError(image.data))
    /\ failed = "BackgroundRetry" =>
          (pc = "done" /\ attempts = 2 /\ ~Attached /\ ~raised)

C16_Witness ==
    failed = "BackgroundRetry" /\ pc = "done" /\ attempts = 2 /\ "error" \in Levels(log)

\* C17: a row of the attached catalog has a NaN fwhm (fwtm) only when
\* contour tracing at that level was run for it and found no contour.
C17_NaNOnlyWhenNoContour ==
    Attached =>
        \A i \in DOMAIN image.CAT.data.rows :
            \A keyword \in {"fwhm", "fwtm"} :
                isnan(image.CAT.data.rows[i][keyword]) =>
                    image.CAT.data.rows[i].contours[keyword] = "none"

\* C17, amended: contour tracing is run only for the sources whose flag is 0
\* when the widths are measured.  A row of the attached catalog has a NaN
\* fwhm (fwtm) exactly when tracing at that level found no contour for it or
\* was not run for it; it was not run only for a row with a non-zero flag,
\* and a row flagged as merged by the extraction is never traced.
C17_NaNWhenUntracedOrNoContour ==
    Attached =>
        \A i \in DOMAIN image.CAT.data.rows :
            \A keyword \in {"fwhm", "fwtm"} :
                LET row == image.CAT.data.rows[i]
                IN /\ isnan(row[keyword]) <=> row.contours[keyword] \in {"none", "untraced"}
                   /\ row.contours[keyword] = "untraced" => row.flag # 0
                   /\ row.flag % 2 = 1 => row.contours[keyword] = "untraced"
                   /\ row.flag = 0 => row.contours[keyword] # "untraced"

\* a merged source, never traced, is in the catalog with NaN widths next to a
\* traced one
C17_Witness ==
    /\ Attached
    /\ \E i, j \in DOMAIN image.CAT.data.rows :
          /\ image.CAT.data.rows[i].flag = 1
          /\ image.CAT.data.rows[i].contours["fwhm"] = "untraced"
          /\ isnan(image.CAT.data.rows[i].fwhm)
          /\ image.CAT.data.rows[j].contours["fwhm"] = "found"
          /\ image.CAT.data.rows[j].contours["fwtm"] = "none"

\* the header keys in the order SourceDetector writes them
WrittenOrder == <<"L1MEAN", "L1MEDIAN", "L1SIGMA", "L1FWHM", "L1FWTM", "L1ELLIP", "L1ELLIPA">>

\* the statements of do_stage that come before the first header write
BeforeStatistics ==
    {"start", "Background", "BackgroundRetry", "subfrom", "extract", "prune",
     "kron_radius", "sum_ellipse", "sum_circle", "flux_radius", "find_contours",
     "winpos", "background", "catalog", "L1MEAN"}

\* C18: when do_stage has returned, the frame-statistic keys are in the
\* header if and only if the catalog is attached; a run that failed has left
\* the header as it was on entry.
C18_MetaAndCatalogTogether ==
    pc = "done" =>
        /\ (FrameKeys \cap DOMAIN image.meta # {}) <=> Attached
        /\ failed # "none" => image.meta = NoMeta

\* C18, amended: when do_stage has returned with the catalog attached, all
\* seven frame-statistic keys are in the header; a run that failed has
\* attached no catalog and has left in the header the keys written before
\* the statement that failed, in the order L1MEAN, L1MEDIAN, L1SIGMA, then
\* the four seeing keys together; the header is as on entry only when the
\* failure came before the L1MEAN write.
C18_CatalogImpliesStatistics ==
    pc = "done" =>
        /\ Attached => (failed = "none" /\ DOMAIN image.meta = FrameKeys)
        /\ failed # "none" => ~Attached
        /\ \A i \in 2..Len(WrittenOrder) :
              WrittenOrder[i] \in DOMAIN image.meta => WrittenOrder[i - 1] \in DOMAIN image.meta
        /\ failed \in BeforeStatistics <=> (failed # "none" /\ image.meta = NoMeta)

\* the run failed at the L1SIGMA statement: two keys are written, no catalog
C18_Witness ==
    /\ pc = "done" /\ failed = "L1SIGMA" /\ ~Attached
    /\ DOMAIN image.meta = {"L1MEAN", "L1MEDIAN"}

\* PhotometricCalibrator.do_stage has run to its last statement
Calibrated ==
    stage = "PhotometricCalibrator" /\ pc = "done" /\ "to_magnitude" \in calls /\ ~raised

\* C13: the catalog SourceDetector attaches has exactly the 36 fixed columns;
\* after a successful PhotometricCalibrator.do_stage it has, besides them,
\* the columns mag, magerr and zeropoint.
C13_ColumnsWithZeropoint ==
    /\ (Attached /\ ~Calibrated) => image.CAT.data.cols = CatalogColumns
    /\ Calibrated =>
          /\ CatalogColumns \subseteq image.CAT.data.cols
          /\ {"mag", "magerr", "zeropoint"} \subseteq image.CAT.data.cols

\* C13, amended: the catalog SourceDetector attaches has exactly the 36 fixed
\* columns, and keeps exactly them through a calibration that does not run
\* to its end; after a successful PhotometricCalibrator.do_stage it has
\* exactly the 36 columns and mag and magerr, and no zeropoint column.
C13_ColumnsWithMagnitudes ==
    /\ (Attached /\ ~Calibrated) => image.CAT.data.cols = CatalogColumns
    /\ Cardinality(CatalogColumns) = 36
    /\ Calibrated =>
          /\ image.CAT.data.cols = CatalogColumns \cup {"mag", "magerr"}
          /\ "zeropoint" \notin image.CAT.data.cols

C13_Witness ==
    /\ Calibrated
    /\ Len(image.CAT.data.rows) > 0
    /\ {"mag", "magerr"} \subseteq image.CAT.data.cols
    /\ attempts = 1

\* C14: need_to_make_preview answers True at most max_tries times for one
\* checksum (the answer that recorded the checksum included); an answer True
\* is given only while the stored tries are below max_tries and the file is
\* not marked successful, so that with max_tries failures recorded, or after
\* set_preview_file_as_processed, every answer is False until the checksum
\* changes.
C14_TriesBounded ==
    /\ preview.trues <= max_tries
    /\ preview.db.tries <= max_tries
    /\ (preview.pc = "returned" /\ preview.need_to_process) =>
          /\ preview.criteria = "pass"
          /\ preview.db.tries < max_tries
          /\ ~preview.db.success
          /\ preview.trues = preview.db.tries + 1

\* max_tries failures are recorded for the file as it is on disk, and the
\* answer is False
C14_Witness ==
    /\ preview.pc = "returned" /\ ~preview.need_to_process
    /\ preview.criteria = "pass"
    /\ preview.db.checksum = preview.md5
    /\ preview.db.tries = max_tries /\ ~preview.db.success
    /\ preview.trues = max_tries

\* C15: a call of need_to_make_preview whose criteria pass and whose md5
\* differs from the stored checksum leaves the stored record with the new
\* md5, tries 0 and success False and answers True, whatever the record
\* held; a call whose criteria fail or whose telescope is missing answers
\* False and leaves the stored record as it was.
C15_ResetOnChange ==
    [][(preview.pc = "idle" /\ preview'.pc = "returned") =>
          /\ (preview'.criteria = "pass" /\ preview.db.checksum # preview.md5) =>
                /\ preview'.db = [checksum |-> preview.md5, tries |-> 0, success |-> FALSE]
                /\ preview'.need_to_process
          /\ preview'.criteria # "pass" =>
                (preview'.db = preview.db /\ ~preview'.need_to_process)]_vars

\* the file changed after previews of its first content were tried, and the
\* record is reset
C15_Witness ==
    /\ preview.pc = "returned" /\ preview.need_to_process
    /\ preview.md5 = 2
    /\ preview.db = [checksum |-> 2, tries |-> 0, success |-> FALSE]

\* a stage of the run returned None
Stopped == Len(run.constructed) > 0 /\ run.images.none

\* C19: the stages constructed are the first stages of stages_to_do, in list
\* order, and each received what the one before it returned; when a stage
\* returns None, 'Reduction stopped' is logged, the function has returned,
\* with no later stage constructed and nothing written; images are written,
\* each once, only after every stage has returned its images.
C19_StagesInOrder ==
    LET n == Len(run.constructed)
    IN /\ n <= Len(run.stages_to_do)
       /\ run.constructed = SubSeq(run.stages_to_do, 1, n)
       /\ Len(run.received) = n
       /\ \A k \in 1..n :
             /\ ~run.received[k].none
             /\ \A i \in DOMAIN run.received[k].frames :
                   run.received[k].frames[i] = SubSeq(run.stages_to_do, 1, k - 1)
       /\ Stopped => (run.pc = "returned" /\ run.written = <<>>
                      /\ run.log = <<"Reduction stopped">>)
       /\ run.log # <<>> => Stopped
       /\ run.written # <<>> =>
             /\ n = Len(run.stages_to_do)
             /\ Len(run.written) = run.image_paths.n
             /\ \A i \in DOMAIN run.written : run.written[i] = run.stages_to_do
       /\ (run.pc = "returned" /\ ~Stopped /\ ~run.raised) =>
             Len(run.written) = run.image_paths.n

\* the second of four stages returned None: two stages constructed, nothing
\* written
C19_Witness ==
    /\ run.pc = "returned"
    /\ Stopped
    /\ Len(run.constructed) = 2
    /\ Len(run.stages_to_do) = 4

============================================================================
